---- MODULE Spec2Model ----
(***************************************************************************)
(* A model of solve.ts: decoding of base-encoded share values              *)
(* (parseBigIntWithBase), construction of the points from the parsed JSON  *)
(* record (getPointsFromJSON), Lagrange interpolation at x = 0 with        *)
(* truncating BigInt division (findSecret), and the control flow of main.  *)
(*                                                                         *)
(* Strings are sequences of one-character strings.  A JS number is a       *)
(* record [nan, n]; a bigint is an integer.  A call's outcome is a record  *)
(* [ok, val, err]: a returned value or a thrown error.                     *)
(***************************************************************************)
EXTENDS Integers, Sequences, FiniteSets, TLC

VARIABLES
    \* main
    pc, argv, file, testCase, k, allPoints, pointsToUse, secret, error,
    stdout, stderr,
    \* a call of parseBigIntWithBase
    decPc, decValue, decBase, decResult,
    \* calls of findSecret on an array the caller reorders between calls
    fsPc, fsPoints, fsResult, fsCalls

mainVars == <<pc, argv, file, testCase, k, allPoints, pointsToUse, secret,
              error, stdout, stderr>>
decVars == <<decPc, decValue, decBase, decResult>>
fsVars == <<fsPc, fsPoints, fsResult, fsCalls>>
vars == <<mainVars, decVars, fsVars>>

----------------------------------------------------------------------------
\* Bounds of the model.

\* longest digit string handed to parseBigIntWithBase
MaxLen == 3
\* most points handed to findSecret
MaxPts == 3
\* x of a point ranges over -1..MaxX, y over 0..MaxY
MaxX == 2
MaxY == 2
\* most share records declared in the input file
MaxRecs == 3
\* keys.k ranges over -1..MaxK
MaxK == 3

----------------------------------------------------------------------------
\* JS values.

Num(n) == [nan |-> FALSE, n |-> n]
NaN == [nan |-> TRUE, n |-> 0]

\* A property that is absent from its object reads as undefined.
Undefined == <<"undefined">>

NoError == [name |-> "", text |-> "", char |-> "", base |-> NaN]
Return(v) == [ok |-> TRUE, val |-> v, err |-> NoError]
Throw(e) == [ok |-> FALSE, val |-> 0, err |-> e]

\* new Error(`Invalid character '${char}' for base ${base}`)
InvalidCharacterError(char, base) ==
    [name |-> "Error", text |-> "Invalid character for base",
     char |-> char, base |-> base]
\* what the runtime throws
RangeErrorNotInteger(base) ==
    [name |-> "RangeError", text |-> "cannot be converted to a BigInt",
     char |-> "", base |-> base]
RangeErrorDivisionByZero ==
    [name |-> "RangeError", text |-> "Division by zero", char |-> "", base |-> NaN]
SyntaxErrorBigInt ==
    [name |-> "SyntaxError", text |-> "Cannot convert to a BigInt", char |-> "", base |-> NaN]
SyntaxErrorJSON ==
    [name |-> "SyntaxError", text |-> "Unexpected token in JSON", char |-> "", base |-> NaN]
TypeErrorUndefined ==
    [name |-> "TypeError", text |-> "Cannot read properties of undefined", char |-> "", base |-> NaN]
ErrorENOENT ==
    [name |-> "Error", text |-> "ENOENT: no such file or directory", char |-> "", base |-> NaN]

----------------------------------------------------------------------------
\* parseBigIntWithBase

digits ==
    <<"0", "1", "2", "3", "4", "5", "6", "7", "8", "9",
      "a", "b", "c", "d", "e", "f", "g", "h", "i", "j", "k", "l", "m",
      "n", "o", "p", "q", "r", "s", "t", "u", "v", "w", "x", "y", "z">>

UpperCase ==
    <<"A", "B", "C", "D", "E", "F", "G", "H", "I", "J", "K", "L", "M",
      "N", "O", "P", "Q", "R", "S", "T", "U", "V", "W", "X", "Y", "Z">>

\* a mutant: no case folding
toLowerCaseNone(char) == char

\* value[i].toLowerCase()
toLowerCase(char) ==
    IF \E u \in 1..Len(UpperCase) : UpperCase[u] = char
    THEN digits[10 + (CHOOSE u \in 1..Len(UpperCase) : UpperCase[u] = char)]
    ELSE char

\* digits.indexOf(char), 0-based, -1 when absent
indexOf(char) ==
    IF \E d \in 1..Len(digits) : digits[d] = char
    THEN (CHOOSE d \in 1..Len(digits) : digits[d] = char) - 1
    ELSE -1

\* a mutant: a digit equal to the base is let through
isInvalidDigitOffByOne(digitValue, base) ==
    digitValue = -1 \/ (~base.nan /\ digitValue > base.n)

\* digitValue === -1 || digitValue >= base (a comparison with NaN is false)
isInvalidDigit(digitValue, base) ==
    digitValue = -1 \/ (~base.nan /\ digitValue >= base.n)

\* BigInt(base): only an integral number converts
BigIntOfNumber(base) ==
    IF base.nan THEN Throw(RangeErrorNotInteger(base)) ELSE Return(base.n)

\* the for loop, from index i (1-based) with the accumulator result
RECURSIVE parseLoop(_, _, _, _)
parseLoop(value, base, i, result) ==
    IF i > Len(value) THEN Return(result)
    ELSE LET char == toLowerCase(value[i])
             digitValue == indexOf(char)
         IN IF isInvalidDigit(digitValue, base)
            THEN Throw(InvalidCharacterError(char, base))
            ELSE parseLoop(value, base, i + 1, result * base.n + digitValue)

parseBigIntWithBase(value, base) ==
    LET baseBigInt == BigIntOfNumber(base)
    IN IF ~baseBigInt.ok THEN baseBigInt
       ELSE IF value = Undefined THEN Throw(TypeErrorUndefined)
       ELSE parseLoop(value, base, 1, 0)

----------------------------------------------------------------------------
\* findSecret

Abs(a) == IF a < 0 THEN -a ELSE a

\* a mutant: a zero divisor yields 0 instead of throwing
BigIntDivideNoThrow(a, b) ==
    IF b = 0 THEN Return(0)
    ELSE Return((IF (a < 0) = (b < 0) THEN 1 ELSE -1) * (Abs(a) \div Abs(b)))

\* a / b on bigints: the quotient truncated toward zero; RangeError when b is 0n
BigIntDivide(a, b) ==
    IF b = 0 THEN Throw(RangeErrorDivisionByZero)
    ELSE Return((IF (a < 0) = (b < 0) THEN 1 ELSE -1) * (Abs(a) \div Abs(b)))

\* the inner for loop of term j, from index m, with acc = <<numerator, denominator>>
RECURSIVE productLoop(_, _, _, _)
productLoop(points, j, m, acc) ==
    IF m > Len(points) THEN acc
    ELSE IF j # m
         THEN productLoop(points, j, m + 1,
                          <<acc[1] * (0 - points[m].x),
                            acc[2] * (points[j].x - points[m].x)>>)
         ELSE productLoop(points, j, m + 1, acc)

\* a mutant: the quotient is taken factor by factor, each one truncated
RECURSIVE partialLoop(_, _, _, _)
partialLoop(points, j, m, acc) ==
    IF m > Len(points) THEN Return(acc)
    ELSE IF j # m
         THEN LET q == BigIntDivide(acc * (0 - points[m].x),
                                    points[j].x - points[m].x)
              IN IF q.ok THEN partialLoop(points, j, m + 1, q.val) ELSE q
         ELSE partialLoop(points, j, m + 1, acc)

termPartialDivision(points, j) == partialLoop(points, j, 1, points[j].y)

\* const term = (currentPoint.y * numerator) / denominator
term(points, j) ==
    LET nd == productLoop(points, j, 1, <<1, 1>>)
    IN BigIntDivide(points[j].y * nd[1], nd[2])

\* the outer for loop, from index j, with the accumulator sum
RECURSIVE sumLoop(_, _, _)
sumLoop(points, j, sum) ==
    IF j > Len(points) THEN Return(sum)
    ELSE LET t == term(points, j)
         IN IF t.ok THEN sumLoop(points, j + 1, sum + t.val) ELSE t

findSecret(points) == sumLoop(points, 1, 0)

----------------------------------------------------------------------------
\* getPointsFromJSON

DecimalDigits == {"0", "1", "2", "3", "4", "5", "6", "7", "8", "9"}

\* the value of the decimal digits s[i..n], after the accumulator acc
RECURSIVE decimalValue(_, _, _, _)
decimalValue(s, i, n, acc) ==
    IF i > n THEN acc ELSE decimalValue(s, i + 1, n, acc * 10 + indexOf(s[i]))

\* the index of the last character of the run of decimal digits starting at i
RECURSIVE digitRunEnd(_, _)
digitRunEnd(s, i) ==
    IF i <= Len(s) /\ s[i] \in DecimalDigits THEN digitRunEnd(s, i + 1) ELSE i - 1

\* parseInt(s, 10): an optional sign and the longest run of decimal digits
\* after it; NaN when the run is empty (so also for undefined)
parseInt(s) ==
    LET signed == Len(s) > 0 /\ s[1] \in {"-", "+"}
        first == IF signed THEN 2 ELSE 1
        last == digitRunEnd(s, first)
        magnitude == decimalValue(s, first, last, 0)
    IN IF last < first THEN NaN
       ELSE Num(IF signed /\ s[1] = "-" THEN -magnitude ELSE magnitude)

\* BigInt(key) of a string: the empty string is 0n; an optional sign and
\* decimal digits only; anything else is a SyntaxError
BigIntOfString(key) ==
    LET signed == Len(key) > 0 /\ key[1] \in {"-", "+"}
        first == IF signed THEN 2 ELSE 1
        magnitude == decimalValue(key, first, Len(key), 0)
    IN IF key = <<>> THEN Return(0)
       ELSE IF first > Len(key) \/ \E i \in first..Len(key) : key[i] \notin DecimalDigits
       THEN Throw(SyntaxErrorBigInt)
       ELSE Return(IF signed /\ key[1] = "-" THEN -magnitude ELSE magnitude)

\* An object is the sequence of its properties [key, val] in the order the
\* JSON text declares them.
KeysName == <<"k", "e", "y", "s">>

\* an integer index: a canonical decimal numeral (below 2^32 - 1, as every
\* key of the model is)
isArrayIndex(key) ==
    /\ Len(key) > 0
    /\ \A i \in 1..Len(key) : key[i] \in DecimalDigits
    /\ (Len(key) = 1 \/ key[1] # "0")

\* the keys among idx (a set of positions of data) in ascending numeric order
RECURSIVE ascending(_, _)
ascending(data, idx) ==
    IF idx = {} THEN <<>>
    ELSE LET least == CHOOSE i \in idx : \A o \in idx :
                          decimalValue(data[i].key, 1, Len(data[i].key), 0)
                              <= decimalValue(data[o].key, 1, Len(data[o].key), 0)
         IN <<data[least].key>> \o ascending(data, idx \ {least})

\* for (const key in data): integer indices first, ascending, then the
\* other keys in the order of their creation
forInKeys(data) ==
    LET IsOther(p) == ~isArrayIndex(p.key)
        others == SelectSeq(data, IsOther)
    IN ascending(data, {i \in 1..Len(data) : isArrayIndex(data[i].key)})
       \o [i \in 1..Len(others) |-> others[i].key]

\* data[key]
Get(data, key) ==
    data[CHOOSE i \in 1..Len(data) : data[i].key = key].val

\* the body of the for-in loop for keys[i..], with the array points so far
RECURSIVE pointsLoop(_, _, _, _)
pointsLoop(data, keys, i, points) ==
    IF i > Len(keys) THEN Return(points)
    ELSE IF keys[i] = KeysName THEN pointsLoop(data, keys, i + 1, points)
    ELSE LET x == BigIntOfString(keys[i])
             base == parseInt(Get(data, keys[i]).base)
             value == Get(data, keys[i]).value
             y == parseBigIntWithBase(value, base)
         IN IF ~x.ok THEN x
            ELSE IF ~y.ok THEN y
            ELSE pointsLoop(data, keys, i + 1,
                            Append(points, [x |-> x.val, y |-> y.val]))

getPointsFromJSON(data) == pointsLoop(data, forInKeys(data), 1, <<>>)

\* array.slice(0, end): a negative end counts from the back
slice(array, end) ==
    LET to == IF end < 0 THEN (IF Len(array) + end < 0 THEN 0 ELSE Len(array) + end)
              ELSE (IF end > Len(array) THEN Len(array) ELSE end)
    IN SubSeq(array, 1, to)

----------------------------------------------------------------------------
\* The inputs.

Strings(chars, n) == UNION {[1..m -> chars] : m \in 0..n}

Pending == [ok |-> FALSE, val |-> 0, err |-> NoError]

\* the arguments of a call of parseBigIntWithBase
DecChars == {"0", "1", "7", "a", "A", "z", "Z", "-"}
DecBases == {Num(b) : b \in {-1, 0, 1, 2, 8, 10, 11, 36, 37}} \cup {NaN}

\* the arrays handed to findSecret
Points == [x : -1..MaxX, y : 0..MaxY]
PointArrays == UNION {[1..m -> Points] : m \in 0..MaxPts}

\* the input file: missing, not JSON, or a record that declares the "keys"
\* object (when it has one) and then up to MaxRecs shares under distinct names
ShareKeys == {<<"1">>, <<"2">>, <<"3">>, <<"0", "1">>}
ShareValues ==
    { [base |-> <<"1", "0">>, value |-> <<"7">>],
      [base |-> <<"3", "7">>, value |-> <<"z">>],
      [base |-> <<"2">>, value |-> <<"7">>],
      [base |-> Undefined, value |-> <<"1">>] }
Shares ==
    UNION { { [i \in 1..m |-> [key |-> ks[i], val |-> vs[i]]] :
                ks \in {f \in [1..m -> ShareKeys] :
                          \A a, b \in 1..m : a # b => f[a] # f[b]},
                vs \in [1..m -> ShareValues] } : m \in 0..MaxRecs }
TestCases ==
    Shares \cup
    { <<[key |-> KeysName, val |-> [n |-> Len(sh), k |-> kk]]>> \o sh :
        sh \in Shares, kk \in -1..MaxK }
Files ==
    { [exists |-> FALSE, json |-> FALSE, data |-> <<>>],
      [exists |-> TRUE, json |-> FALSE, data |-> <<>>] }
    \cup { [exists |-> TRUE, json |-> TRUE, data |-> d] : d \in TestCases }

----------------------------------------------------------------------------
\* main

MainIdle ==
    /\ pc = "idle" /\ argv = Undefined
    /\ file = [exists |-> FALSE, json |-> FALSE, data |-> <<>>]
    /\ testCase = <<>> /\ k = 0 /\ allPoints = <<>> /\ pointsToUse = <<>>
    /\ secret = 0 /\ error = NoError /\ stdout = <<>> /\ stderr = <<>>
DecIdle ==
    /\ decPc = "idle" /\ decValue = <<>> /\ decBase = NaN /\ decResult = Pending
FsIdle ==
    /\ fsPc = "idle" /\ fsPoints = <<>> /\ fsResult = Pending /\ fsCalls = 0

Init ==
    /\ pc = "start"
    /\ argv \in {Undefined, <<"f">>}
    /\ file \in Files
    /\ testCase = <<>> /\ k = 0 /\ allPoints = <<>> /\ pointsToUse = <<>>
    /\ secret = 0 /\ error = NoError /\ stdout = <<>> /\ stderr = <<>>
    /\ DecIdle /\ FsIdle

\* const filePath = process.argv[2]; if (!filePath) { ...; return; }
CheckArgs ==
    /\ pc = "start"
    /\ IF argv = Undefined
       THEN /\ stderr' = stderr \o
                    << <<"Please provide the path to the test case JSON file.">>,
                       <<"Usage: npx ts-node solve.ts <path_to_file>">> >>
            /\ pc' = "done"
       ELSE /\ pc' = "readFile"
            /\ UNCHANGED stderr
    /\ UNCHANGED <<argv, file, testCase, k, allPoints, pointsToUse, secret,
                   error, stdout, decVars, fsVars>>

\* fs.readFileSync(filePath, 'utf-8')
ReadFile ==
    /\ pc = "readFile"
    /\ IF file.exists
       THEN pc' = "parse" /\ UNCHANGED error
       ELSE pc' = "catch" /\ error' = ErrorENOENT
    /\ UNCHANGED <<argv, file, testCase, k, allPoints, pointsToUse, secret,
                   stdout, stderr, decVars, fsVars>>

\* const testCase = JSON.parse(fileContent)
ParseJSON ==
    /\ pc = "parse"
    /\ IF file.json
       THEN pc' = "threshold" /\ testCase' = file.data /\ UNCHANGED error
       ELSE pc' = "catch" /\ error' = SyntaxErrorJSON /\ UNCHANGED testCase
    /\ UNCHANGED <<argv, file, k, allPoints, pointsToUse, secret,
                   stdout, stderr, decVars, fsVars>>

\* const k = testCase.keys.k
ReadThreshold ==
    /\ pc = "threshold"
    /\ IF \E i \in 1..Len(testCase) : testCase[i].key = KeysName
       THEN pc' = "decode" /\ k' = Get(testCase, KeysName).k /\ UNCHANGED error
       ELSE pc' = "catch" /\ error' = TypeErrorUndefined /\ UNCHANGED k
    /\ UNCHANGED <<argv, file, testCase, allPoints, pointsToUse, secret,
                   stdout, stderr, decVars, fsVars>>

\* const allPoints = getPointsFromJSON(testCase)
DecodePoints ==
    /\ pc = "decode"
    /\ LET r == getPointsFromJSON(testCase)
       IN IF r.ok
          THEN pc' = "select" /\ allPoints' = r.val /\ UNCHANGED error
          ELSE pc' = "catch" /\ error' = r.err /\ UNCHANGED allPoints
    /\ UNCHANGED <<argv, file, testCase, k, pointsToUse, secret,
                   stdout, stderr, decVars, fsVars>>

\* const pointsToUse = allPoints.slice(0, k), and the two console.log
SelectPoints ==
    /\ pc = "select"
    /\ pointsToUse' = slice(allPoints, k)
    /\ stdout' = stdout \o << <<"Using points for interpolation:", k>> >>
                        \o [i \in 1..Len(pointsToUse') |->
                              <<"point", pointsToUse'[i].x, pointsToUse'[i].y>>]
    /\ pc' = "interpolate"
    /\ UNCHANGED <<argv, file, testCase, k, allPoints, secret, error,
                   stderr, decVars, fsVars>>

\* const secret = findSecret(pointsToUse)
Interpolate ==
    /\ pc = "interpolate"
    /\ LET r == findSecret(pointsToUse)
       IN IF r.ok
          THEN pc' = "print" /\ secret' = r.val /\ UNCHANGED error
          ELSE pc' = "catch" /\ error' = r.err /\ UNCHANGED secret
    /\ UNCHANGED <<argv, file, testCase, k, allPoints, pointsToUse,
                   stdout, stderr, decVars, fsVars>>

\* the four console.log that print the secret
PrintSecret ==
    /\ pc = "print"
    /\ stdout' = stdout \o << <<"--------------------">>,
                              <<"Secret (c) Found:">>,
                              <<"secret", secret>>,
                              <<"--------------------">> >>
    /\ pc' = "done"
    /\ UNCHANGED <<argv, file, testCase, k, allPoints, pointsToUse, secret,
                   error, stderr, decVars, fsVars>>

\* a mutant: the error is swallowed
CatchSilent ==
    /\ pc = "catch"
    /\ pc' = "done"
    /\ UNCHANGED <<argv, file, testCase, k, allPoints, pointsToUse, secret,
                   error, stdout, stderr, decVars, fsVars>>

\* catch (error) { console.error("An error occurred:", error); }
Catch ==
    /\ pc = "catch"
    /\ stderr' = Append(stderr, <<"An error occurred:", error>>)
    /\ pc' = "done"
    /\ UNCHANGED <<argv, file, testCase, k, allPoints, pointsToUse, secret,
                   error, stdout, decVars, fsVars>>

Next ==
    \/ CheckArgs
    \/ ReadFile
    \/ ParseJSON
    \/ ReadThreshold
    \/ DecodePoints
    \/ SelectPoints
    \/ Interpolate
    \/ PrintSecret
    \/ Catch

Spec == Init /\ [][Next]_vars

----------------------------------------------------------------------------
\* One call of parseBigIntWithBase on every digit string and base.

InitDecode ==
    /\ decPc = "ready"
    /\ decValue \in Strings(DecChars, MaxLen)
    /\ decBase \in DecBases
    /\ decResult = Pending
    /\ MainIdle /\ FsIdle

Decode ==
    /\ decPc = "ready"
    /\ decResult' = parseBigIntWithBase(decValue, decBase)
    /\ decPc' = "done"
    /\ UNCHANGED <<decValue, decBase, mainVars, fsVars>>

NextDecode == Decode

SpecDecode == InitDecode /\ [][NextDecode]_vars

----------------------------------------------------------------------------
\* Calls of findSecret on an array that its caller reorders between calls.

InitInterp ==
    /\ fsPc = "ready"
    /\ fsPoints \in PointArrays
    /\ fsResult = Pending
    /\ fsCalls = 0
    /\ MainIdle /\ DecIdle

CallFindSecret ==
    /\ fsPc = "ready"
    /\ fsResult' = findSecret(fsPoints)
    /\ fsCalls' = IF fsCalls < 2 THEN fsCalls + 1 ELSE fsCalls
    /\ fsPc' = "done"
    /\ UNCHANGED <<fsPoints, mainVars, decVars>>

\* the caller exchanges two entries of the array
Reorder ==
    /\ fsPc = "done"
    /\ \E a, b \in 1..Len(fsPoints) :
          /\ a < b
          /\ fsPoints' = [fsPoints EXCEPT ![a] = fsPoints[b], ![b] = fsPoints[a]]
    /\ fsPc' = "ready"
    /\ UNCHANGED <<fsResult, fsCalls, mainVars, decVars>>

NextInterp ==
    \/ CallFindSecret
    \/ Reorder

SpecInterp == InitInterp /\ [][NextInterp]_vars

----------------------------------------------------------------------------
\* Properties of parseBigIntWithBase (under SpecDecode).

\* the digit value of a character: its position in the alphabet after case
\* folding, -1 when it has none
DigitValue(char) ==
    IF \E d \in 1..36 : digits[d] = char
    THEN (CHOOSE d \in 1..36 : digits[d] = char) - 1
    ELSE IF \E u \in 1..26 : UpperCase[u] = char
    THEN 9 + (CHOOSE u \in 1..26 : UpperCase[u] = char)
    ELSE -1

LowerSpelling(char) ==
    IF \E u \in 1..26 : UpperCase[u] = char
    THEN digits[10 + (CHOOSE u \in 1..26 : UpperCase[u] = char)] ELSE char
UpperSpelling(char) ==
    IF \E u \in 1..26 : digits[10 + u] = char
    THEN UpperCase[CHOOSE u \in 1..26 : digits[10 + u] = char] ELSE char

RECURSIVE Pow(_, _)
Pow(b, e) == IF e = 0 THEN 1 ELSE b * Pow(b, e - 1)

\* sum over i of d_i * b^(len-1-i), the positions counted from 0
RECURSIVE PositionalValue(_, _, _)
PositionalValue(s, b, i) ==
    IF i > Len(s) THEN 0
    ELSE DigitValue(s[i]) * Pow(b, Len(s) - i) + PositionalValue(s, b, i + 1)

IsOffending(char, b) == DigitValue(char) = -1 \/ DigitValue(char) >= b

ValidNumeral(s, b) ==
    /\ b \in 2..36
    /\ Len(s) >= 1
    /\ \A i \in 1..Len(s) : ~IsOffending(s[i], b)

\* C4: for a base in [2, 36] and a non-empty string of digits below the base,
\* parseBigIntWithBase returns the big-endian positional value, and returns
\* the same for the upper-case and the lower-case spelling of the string.
C4_PositionalValue ==
    (decPc = "done" /\ ~decBase.nan /\ ValidNumeral(decValue, decBase.n)) =>
        /\ decResult = Return(PositionalValue(decValue, decBase.n, 1))
        /\ parseBigIntWithBase([i \in 1..Len(decValue) |-> UpperSpelling(decValue[i])],
                               decBase) = decResult
        /\ parseBigIntWithBase([i \in 1..Len(decValue) |-> LowerSpelling(decValue[i])],
                               decBase) = decResult

\* a decoded numeral of several digits with an upper-case digit in it
C4_Witness ==
    /\ decPc = "done" /\ ~decBase.nan /\ ValidNumeral(decValue, decBase.n)
    /\ Len(decValue) >= 2
    /\ \E i \in 1..Len(decValue) : UpperSpelling(decValue[i]) = decValue[i]
                                   /\ LowerSpelling(decValue[i]) # decValue[i]
    /\ decResult.ok /\ decResult.val > decBase.n

\* C5: when the string holds a character outside the alphabet or with a digit
\* value >= the base, at any position, parseBigIntWithBase throws and returns
\* nothing, and the error carries the first such character (case-folded) and
\* the base.
C5_InvalidDigitThrows ==
    (/\ decPc = "done" /\ ~decBase.nan
     /\ \E i \in 1..Len(decValue) : IsOffending(decValue[i], decBase.n)) =>
        LET first == CHOOSE i \in 1..Len(decValue) :
                        /\ IsOffending(decValue[i], decBase.n)
                        /\ \A h \in 1..(i - 1) : ~IsOffending(decValue[h], decBase.n)
        IN /\ ~decResult.ok
           /\ decResult.err =
                  InvalidCharacterError(LowerSpelling(decValue[first]), decBase)

\* the offending character is the last of several, after valid digits
C5_Witness ==
    /\ decPc = "done" /\ ~decBase.nan /\ decBase.n \in 2..36
    /\ Len(decValue) >= 3
    /\ \A i \in 1..(Len(decValue) - 1) : ~IsOffending(decValue[i], decBase.n)
    /\ DigitValue(decValue[Len(decValue)]) >= decBase.n
    /\ ~decResult.ok

\* C6: decoding a non-empty string with a base outside [2, 36] fails.
C6_BaseOutOfRangeFails ==
    (/\ decPc = "done" /\ Len(decValue) >= 1
     /\ (decBase.nan \/ decBase.n \notin 2..36)) => ~decResult.ok

----------------------------------------------------------------------------
\* Properties of findSecret (under SpecInterp).

DistinctX(points) ==
    \A a, b \in 1..Len(points) : a # b => points[a].x # points[b].x

\* the value at x of the polynomial with the coefficients c[1], c[2], ...
RECURSIVE Eval(_, _, _)
Eval(c, x, i) == IF i > Len(c) THEN 0 ELSE c[i] + x * Eval(c, x, i + 1)

Coefficients == -1..1

\* C1: on k points with distinct x on an integer polynomial of degree at most
\* k-1, findSecret returns the constant term.
C1_RecoversConstantTerm ==
    (fsPc = "done" /\ Len(fsPoints) >= 1 /\ DistinctX(fsPoints)) =>
        \A c \in [1..Len(fsPoints) -> Coefficients] :
            (\A i \in 1..Len(fsPoints) : fsPoints[i].y = Eval(c, fsPoints[i].x, 1))
                => fsResult = Return(c[1])

Numerator(points, j) == productLoop(points, j, 1, <<1, 1>>)[1]
Denominator(points, j) == productLoop(points, j, 1, <<1, 1>>)[2]
Inexact(points, j) ==
    /\ Denominator(points, j) # 0
    /\ (Abs(points[j].y * Numerator(points, j)) % Abs(Denominator(points, j))) # 0

\* C3: when some y_j * numerator_j is not a multiple of denominator_j,
\* findSecret throws and returns no secret.
C3_InexactDivisionThrows ==
    (fsPc = "done" /\ \E j \in 1..Len(fsPoints) : Inexact(fsPoints, j))
        => ~fsResult.ok

\* C7: on an array with two points of the same x, findSecret throws (the
\* division by zero) and returns no secret, whatever the y values.
C7_DuplicateXThrows ==
    (fsPc = "done" /\ ~DistinctX(fsPoints)) =>
        ~fsResult.ok /\ fsResult.err = RangeErrorDivisionByZero

\* three points, the last two colliding, both with y = 0
C7_Witness ==
    /\ fsPc = "done" /\ Len(fsPoints) = 3
    /\ fsPoints[1].x # fsPoints[2].x
    /\ fsPoints[2].x = fsPoints[3].x
    /\ fsPoints[2].y = 0 /\ fsPoints[3].y = 0
    /\ ~fsResult.ok

\* C10: a call of findSecret leaves its array as it was, and on points with
\* distinct x it returns what the previous call returned on the array before
\* two of its entries were exchanged (so the same for every reordering),
\* whether or not the divisions are exact.
C10_PermutationInvariant ==
    [][(fsPc = "ready" /\ fsPc' = "done") =>
          /\ fsPoints' = fsPoints
          /\ (fsCalls >= 1 /\ DistinctX(fsPoints)) =>
                (fsResult'.ok /\ fsResult' = fsResult)]_vars

\* a second call, after a reordering, on three points with distinct x, two
\* of whose terms are inexact
C10_Witness ==
    /\ fsPc = "done" /\ fsCalls = 2
    /\ Len(fsPoints) = 3 /\ DistinctX(fsPoints)
    /\ \E i, j \in 1..3 : i # j /\ Inexact(fsPoints, i) /\ Inexact(fsPoints, j)
    /\ fsResult.ok /\ fsResult.val # 0
    /\ fsPoints[1].x > fsPoints[2].x

----------------------------------------------------------------------------
\* Properties of main (under Spec).

DeclaredShares == LET IsShare(p) == p.key # KeysName IN SelectSeq(testCase, IsShare)

\* C2: the points handed to findSecret are the first records of the input in
\* the order of their declaration.
C2_DeclaredOrder ==
    (pc = "interpolate" /\ k >= 1) =>
        \A i \in 1..Len(pointsToUse) :
            /\ i <= Len(DeclaredShares)
            /\ pointsToUse[i].x = BigIntOfString(DeclaredShares[i].key).val
            /\ pointsToUse[i].y =
                  parseBigIntWithBase(DeclaredShares[i].val.value,
                                      parseInt(DeclaredShares[i].val.base)).val

\* C9: the array main hands to findSecret has exactly k points, for every
\* threshold k >= 1 the input names.
C9_ExactlyKPoints == (pc = "interpolate" /\ k >= 1) => Len(pointsToUse) = k

SecretEmitted == \E i \in 1..Len(stdout) : stdout[i][1] = "secret"

HasKeys(data) == \E i \in 1..Len(data) : data[i].key = KeysName

\* some stage of the run on this input throws
RunFails ==
    \/ argv = Undefined
    \/ ~file.exists
    \/ ~file.json
    \/ ~HasKeys(file.data)
    \/ ~getPointsFromJSON(file.data).ok
    \/ ~findSecret(slice(getPointsFromJSON(file.data).val,
                         Get(file.data, KeysName).k)).ok

\* C8: a secret is printed only in a run none of whose stages throws; a run
\* with a stage that throws, or without the path argument, ends with a report
\* on standard error and no secret; without the argument nothing is computed;
\* and every error thrown is the one the catch block reports.
C8_SecretOnlyOnSuccess ==
    /\ SecretEmitted => ~RunFails
    /\ (pc = "done" /\ RunFails) => (Len(stderr) > 0 /\ ~SecretEmitted)
    /\ (pc = "done" /\ ~RunFails) => (SecretEmitted /\ stderr = <<>>)
    /\ argv = Undefined => (pc \in {"start", "done"} /\ stdout = <<>>)
    /\ pc = "catch" => (RunFails /\ error # NoError)
    /\ (pc = "done" /\ RunFails /\ argv # Undefined) =>
          stderr = << <<"An error occurred:", error>> >>

\* a run whose last stage throws: every record decodes, findSecret divides by
\* zero on two records with the same x
C8_Witness ==
    /\ pc = "done" /\ argv # Undefined /\ file.json /\ HasKeys(file.data)
    /\ getPointsFromJSON(file.data).ok
    /\ Len(pointsToUse) >= 2 /\ ~DistinctX(pointsToUse)
    /\ Len(stderr) = 1 /\ stderr[1][2] = RangeErrorDivisionByZero
    /\ ~SecretEmitted

====
